---- MODULE Spec2Model ----
(***************************************************************************)
(* RTNeural: the dense layers (dynamic Dense in its two revisions, static  *)
(* DenseT) and the Eigen GRU layers (dynamic GRULayer, static GRULayerT    *)
(* with its sample-rate correction), as one state machine.  One layer      *)
(* object is constructed in Init (its kind is fixed there) and the actions *)
(* are the member functions called on it.                                  *)
(*                                                                         *)
(* The scalar type T is an unsigned integer of SizeofT bytes, stored       *)
(* little-endian; memcpy and memset count bytes, as in the source.         *)
(***************************************************************************)
EXTENDS Integers, Sequences, FiniteSets, TLC

\* ------------------------------------------------------------------ bounds
SizeofT == 2
in_size == 3
out_size == 2
MaxDelay == 2
MaxSteps == 3
MaxDepth == 2
FracDen == 2

ArgSeeds == {1, 2}
GarbageBytes == {0, 7}

\* ------------------------------------------------------------- arithmetic
RECURSIVE Pow(_, _)
Pow(b, e) == IF e = 0 THEN 1 ELSE b * Pow(b, e - 1)

TMod == Pow(256, SizeofT)

Clamp(v, lo, hi) == IF v < lo THEN lo ELSE IF v > hi THEN hi ELSE v

InIdx == 0 .. (in_size - 1)
OutIdx == 0 .. (out_size - 1)
GateIdx == 0 .. (3 * out_size - 1)

\* A T whose every byte is g: what storage nobody wrote may hold.
RECURSIVE Fill(_, _)
Fill(g, n) == IF n = 0 THEN 0 ELSE g + 256 * Fill(g, n - 1)

\* The low nb bytes of src laid over dst (one element, little-endian).
MemcpyElem(dst, src, nb) ==
    LET m == Pow(256, Clamp(nb, 0, SizeofT))
    IN  (src % m) + (dst - (dst % m))

\* memcpy(dst, src, n): n BYTES from the start of src over the start of dst.
\* Element k covers bytes k*SizeofT .. (k+1)*SizeofT-1.
Memcpy(dst, src, n) ==
    [k \in DOMAIN dst |->
        LET nb == Clamp(n - k * SizeofT, 0, SizeofT)
        IN  IF nb = 0 THEN dst[k] ELSE MemcpyElem(dst[k], src[k], nb)]

\* memset(dst, 0, n): n BYTES of zero over the start of dst.
Memset0(dst, n) ==
    [k \in DOMAIN dst |-> MemcpyElem(dst[k], 0, Clamp(n - k * SizeofT, 0, SizeofT))]

\* AddMultiply::operator()(t, e): the product of the tuple's elements, added to e.
AddMultiply(t, e) == (e + ((t[1] * t[2] * 1) % TMod)) % TMod

\* ranges::fold_right(zip(w, v), init, AddMultiply) over the first n pairs:
\* f(p0, f(p1, ... f(p(n-1), init))).
RECURSIVE FoldRightZip(_, _, _, _, _)
FoldRightZip(w, v, k, n, init) ==
    IF k >= n THEN init
    ELSE AddMultiply(<<w[k], v[k]>>, FoldRightZip(w, v, k + 1, n, init))

Min(a, b) == IF a < b THEN a ELSE b

\* ------------------------------------------------------- caller arguments
\* The arguments the callers pass, one per seed, every entry distinct and
\* with a non-zero second byte.
WArg(s) == [i \in OutIdx |-> [k \in InIdx |-> 256 * s + i * in_size + k + 1]]
BArg(s) == [i \in OutIdx |-> 256 * s + 64 + i]
XArg(s) == [k \in InIdx |-> 256 * s + 128 + k]

\* GRU sources: wVals[in_size][3*out_size], uVals[out_size][3*out_size],
\* bVals[2][3*out_size].
WVals(s) == [i \in InIdx |-> [k \in GateIdx |-> 100 * s + i * 3 * out_size + k + 1]]
UVals(s) == [i \in OutIdx |-> [k \in GateIdx |-> 100 * s + 40 + i * 3 * out_size + k]]
BVals(s) == [r \in 0 .. 1 |-> [k \in GateIdx |-> 100 * s + 80 + r * 3 * out_size + k]]

\* What the GRU cell can put out in one step (sigmoid and tanh are outside
\* this code): non-zero vectors, multiples of FracDen so that the
\* interpolation weights divide exactly.
KernelOuts == {[j \in OutIdx |-> FracDen * (v + j)] : v \in ArgSeeds}
ZeroOut == [j \in OutIdx |-> 0]

\* ------------------------------------------------------------------ state
VARIABLES
    kind,             \* which class the object is
    weights,          \* Dense/DenseT: weights (row storage, capacity included)
    rowSize,          \* Dense: weights[i].size()
    bias,             \* Dense (dense_ranges.h), DenseT: bias
    inVec,            \* Dense: inVec
    outVec,           \* forward's output buffer (DenseT: outs)
    wCombinedWeights, \* GRU: 3*out_size x (in_size+1)
    uCombinedWeights, \* GRU: 3*out_size x (out_size+1)
    extendedInVec,    \* GRU: in_size+1
    extendedHt1,      \* GRU: out_size+1
    outs,             \* GRU: the output vector (GRULayer: the caller's)
    outs_delayed,     \* GRULayerT: the delay buffer, slot 0 first
    delayWriteIdx,    \* GRULayerT
    delayMult,        \* GRULayerT, in units of 1/FracDen
    delayPlus1Mult,   \* GRULayerT, in units of 1/FracDen
    sampleRateCorr,   \* GRULayerT template argument
    prepared,         \* GRULayerT: prepare was called
    assignDepth,      \* frames of operator= on the stack
    faulted,          \* the process died (out-of-bounds write, stack exhausted)
    lastOp,           \* history: the last member function that returned
    lastW, lastB,     \* history: seed of the last setWeights / setBias argument (0: none)
    lastIn, prevIn,   \* history: seeds of the last two forward inputs since the
                      \*          parameters last changed (0: none)
    gW, gU, gB,       \* history: seeds of the last setWVals/setUVals/setBVals argument
    delaySamples,     \* history: prepare's argument (integer mode)
    kernelHist        \* history: the cell's outputs since prepare/reset (integer mode)

denseVars == <<weights, rowSize, bias, inVec, outVec>>
denseHist == <<lastW, lastB, lastIn, prevIn>>
gruWeights == <<wCombinedWeights, uCombinedWeights>>
gruStream == <<extendedInVec, extendedHt1, outs, outs_delayed, kernelHist>>
gruDelay == <<delayWriteIdx, delayMult, delayPlus1Mult, prepared, delaySamples>>
gruHist == <<gW, gU, gB>>
gruVars == <<gruWeights, gruStream, gruDelay, gruHist>>
vars == <<kind, sampleRateCorr, denseVars, denseHist, gruVars, assignDepth, faulted, lastOp>>

DenseKinds == {"Dense_ranges", "Dense_folded", "DenseT"}
GruKinds == {"GRULayer", "GRULayerT"}
IsDense == kind \in DenseKinds
IsGru == kind \in GruKinds

\* No call is in progress and the process is alive.
Idle == assignDepth = 0 /\ ~faulted

\* ---------------------------------------------------------- constructors
ZeroRow(n) == [k \in 0 .. (n - 1) |-> 0]

\* Dense::Dense (dense_ranges.h): weights out_size x in_size and bias, zero.
DenseRangesInit ==
    /\ weights = [i \in OutIdx |-> ZeroRow(in_size)]
    /\ rowSize = [i \in OutIdx |-> in_size]
    /\ bias = [i \in OutIdx |-> 0]
    /\ inVec = ZeroRow(in_size)
    /\ outVec = [i \in OutIdx |-> 0]

\* Dense::Dense (bias folded into the rows): inVec has in_size+1 elements,
\* the last one set to 1.
FoldedInVecInit == [ZeroRow(in_size + 1) EXCEPT ![in_size] = 1]

\* Dense::Dense (bias folded): each row has in_size+1 elements, zero.
DenseFoldedInit ==
    /\ weights = [i \in OutIdx |-> ZeroRow(in_size + 1)]
    /\ rowSize = [i \in OutIdx |-> in_size + 1]
    /\ bias = [i \in OutIdx |-> 0]
    /\ inVec = FoldedInVecInit
    /\ outVec = [i \in OutIdx |-> 0]

\* DenseT::DenseT: memset of in_size BYTES per row and out_size BYTES of
\* bias; the bytes it does not reach, and outs, hold whatever was there.
DenseTInit ==
    \E g \in GarbageBytes :
        /\ weights = [i \in OutIdx |->
                        Memset0([k \in InIdx |-> Fill(g, SizeofT)], in_size)]
        /\ rowSize = [i \in OutIdx |-> in_size]
        /\ bias = Memset0([i \in OutIdx |-> Fill(g, SizeofT)], out_size)
        /\ inVec = ZeroRow(0)
        /\ outVec = [i \in OutIdx |-> Fill(g, SizeofT)]

NoDense ==
    /\ weights = ZeroRow(0) /\ rowSize = ZeroRow(0) /\ bias = ZeroRow(0)
    /\ inVec = ZeroRow(0) /\ outVec = ZeroRow(0)

\* GRULayer::GRULayer and GRULayerT::GRULayerT: zero matrices and vectors,
\* then the last element of each extended vector set to 1.  GRULayerT ends
\* with reset(), which zeroes outs (the delay buffer is still empty).
GruInit ==
    /\ wCombinedWeights = [k \in GateIdx |-> ZeroRow(in_size + 1)]
    /\ uCombinedWeights = [k \in GateIdx |-> ZeroRow(out_size + 1)]
    /\ extendedInVec = [ZeroRow(in_size + 1) EXCEPT ![in_size] = 1]
    /\ extendedHt1 = [ZeroRow(out_size + 1) EXCEPT ![out_size] = 1]
    /\ outs = ZeroOut
    /\ outs_delayed = <<>>

NoGru ==
    /\ wCombinedWeights = ZeroRow(0) /\ uCombinedWeights = ZeroRow(0)
    /\ extendedInVec = ZeroRow(0) /\ extendedHt1 = ZeroRow(0)
    /\ outs = ZeroRow(0) /\ outs_delayed = <<>>

Init ==
    /\ kind \in DenseKinds \cup GruKinds
    /\ sampleRateCorr \in (IF kind = "GRULayerT" THEN {"None", "NoInterp", "LinInterp"}
                           ELSE {"None"})
    /\ CASE kind = "Dense_ranges" -> DenseRangesInit
         [] kind = "Dense_folded" -> DenseFoldedInit
         [] kind = "DenseT" -> DenseTInit
         [] OTHER -> NoDense
    /\ IF kind \in GruKinds THEN GruInit ELSE NoGru
    /\ delayWriteIdx = 0 /\ delayMult = FracDen /\ delayPlus1Mult = 0
    /\ prepared = FALSE /\ delaySamples = 0 /\ kernelHist = <<>>
    /\ assignDepth = 0 /\ faulted = FALSE /\ lastOp = "ctor"
    /\ lastW = 0 /\ lastB = 0 /\ lastIn = 0 /\ prevIn = 0
    /\ gW = 0 /\ gU = 0 /\ gB = 0

\* --------------------------------------------------------- Dense: forward
\* Dense::forward (dense_ranges.h) and DenseT::forward: each row zipped with
\* the input and folded from the right, starting from that row's bias.
DenseForwardOut(w, b, x) ==
    [j \in OutIdx |-> FoldRightZip(w[j], x, 0, in_size, b[j])]

FoldedForwardStale(w, rs, iv, x) ==
    [inVec |-> Memcpy(iv, x, in_size),
     out |-> [j \in OutIdx |->
                FoldRightZip(w[j], iv, 0, Min(rs[j], in_size + 1), 0)]]

\* Dense::forward (bias folded): memcpy of in_size BYTES of the input over
\* inVec, then each row (a copy, rs[j] elements long) zipped with inVec and
\* folded from the right, starting from 0.  zip stops at the shorter range.
FoldedForward(w, rs, iv, x) ==
    LET niv == Memcpy(iv, x, in_size)
    IN  [inVec |-> niv,
         out |-> [j \in OutIdx |->
                    FoldRightZip(w[j], niv, 0, Min(rs[j], in_size + 1), 0)]]

Forward(s) ==
    /\ Idle /\ IsDense
    /\ IF kind = "Dense_folded"
       THEN LET r == FoldedForward(weights, rowSize, inVec, XArg(s))
            IN  inVec' = r.inVec /\ outVec' = r.out
       ELSE inVec' = inVec /\ outVec' = DenseForwardOut(weights, bias, XArg(s))
    /\ lastIn' = s /\ prevIn' = lastIn /\ lastOp' = "forward"
    /\ UNCHANGED <<kind, sampleRateCorr, weights, rowSize, bias, lastW, lastB,
                   gruVars, assignDepth, faulted>>

\* --------------------------------------------------------- Dense: setters
\* Dense::setWeights(vector) (dense_ranges.h): weights = newWeights.
RangesSetWeightsVec(w, nw) == nw

\* Dense::setWeights(vector) (bias folded): std::copy assigns every row of
\* newWeights to the row of weights: the row becomes in_size long.  Its
\* storage (capacity in_size+1) is reused, so the old last slot stays in
\* memory past the end of the row.
FoldedSetWeightsVec(w, nw) ==
    [i \in OutIdx |-> [k \in DOMAIN w[i] |-> IF k < in_size THEN nw[i][k] ELSE w[i][k]]]

\* setWeights(T**) of all three classes and DenseT::setWeights(vector):
\* memcpy of in_size BYTES per row.
MemcpySetWeights(w, nw) == [i \in OutIdx |-> Memcpy(w[i], nw[i], in_size)]

\* setBias of Dense (dense_ranges.h) and DenseT: memcpy of out_size BYTES.
MemcpySetBias(b, nb) == Memcpy(b, nb, out_size)

\* Dense::setBias (bias folded): weights[i][in_size] = b[i].
FoldedSetBias(w, nb) == [i \in OutIdx |-> [w[i] EXCEPT ![in_size] = nb[i]]]

ParamsChanged == lastIn' = 0 /\ prevIn' = 0

SetWeightsVec(s) ==
    /\ Idle /\ IsDense
    /\ CASE kind = "Dense_ranges" ->
              weights' = RangesSetWeightsVec(weights, WArg(s)) /\ rowSize' = rowSize
         [] kind = "Dense_folded" ->
              /\ weights' = FoldedSetWeightsVec(weights, WArg(s))
              /\ rowSize' = [i \in OutIdx |-> in_size]
         [] OTHER ->
              weights' = MemcpySetWeights(weights, WArg(s)) /\ rowSize' = rowSize
    /\ lastW' = s /\ lastOp' = "setWeights" /\ ParamsChanged
    /\ UNCHANGED <<kind, sampleRateCorr, bias, inVec, outVec, lastB,
                   gruVars, assignDepth, faulted>>

SetWeightsPtr(s) ==
    /\ Idle /\ IsDense
    /\ weights' = MemcpySetWeights(weights, WArg(s))
    /\ lastW' = s /\ lastOp' = "setWeightsPtr" /\ ParamsChanged
    /\ UNCHANGED <<kind, sampleRateCorr, rowSize, bias, inVec, outVec, lastB,
                   gruVars, assignDepth, faulted>>

\* In the bias-folded Dense a row that setWeights(vector) shortened has no
\* element in_size: the write lands in the row's spare storage, or a
\* checked library build stops the process.
SetBias(s) ==
    /\ Idle /\ IsDense
    /\ \/ /\ kind = "Dense_folded"
          /\ weights' = FoldedSetBias(weights, BArg(s))
          /\ lastB' = s /\ lastOp' = "setBias" /\ ParamsChanged
          /\ UNCHANGED <<bias, faulted>>
       \/ /\ kind = "Dense_folded"
          /\ \E i \in OutIdx : rowSize[i] <= in_size
          /\ faulted' = TRUE
          /\ UNCHANGED <<weights, bias, lastB, lastOp, lastIn, prevIn>>
       \/ /\ kind # "Dense_folded"
          /\ bias' = MemcpySetBias(bias, BArg(s))
          /\ lastB' = s /\ lastOp' = "setBias" /\ ParamsChanged
          /\ UNCHANGED <<weights, faulted>>
    /\ UNCHANGED <<kind, sampleRateCorr, rowSize, inVec, outVec, lastW,
                   gruVars, assignDepth>>

\* DenseT::reset: nothing to do.
DenseReset ==
    /\ Idle /\ kind = "DenseT"
    /\ lastOp' = "reset"
    /\ UNCHANGED <<kind, sampleRateCorr, denseVars, denseHist, gruVars,
                   assignDepth, faulted>>

\* Dense::getWeight(i, k) and Dense::getBias(i).
getWeight(i, k) == weights[i][k]
getBias(i) == IF kind = "Dense_folded" THEN weights[i][in_size] ELSE bias[i]

\* ------------------------------------------------------- copy assignment
\* Dense::operator=(const Dense&) and GRULayer::operator=(const GRULayer&):
\* "return *this = Dense(other);".  The class declares no move assignment,
\* so the temporary binds to const Dense& and the call is to this same
\* operator again: every frame makes one more.
AssignCall ==
    /\ Idle /\ kind \in {"Dense_ranges", "Dense_folded", "GRULayer"}
    /\ assignDepth' = 1
    /\ UNCHANGED <<kind, sampleRateCorr, denseVars, denseHist, gruVars, faulted, lastOp>>

\* The frame on top builds the temporary and calls operator= again; when
\* the stack has no room for another frame the process dies.
AssignRecurse ==
    /\ assignDepth >= 1 /\ ~faulted
    /\ IF assignDepth < MaxDepth
       THEN assignDepth' = assignDepth + 1 /\ faulted' = faulted
       ELSE assignDepth' = assignDepth /\ faulted' = TRUE
    /\ UNCHANGED <<kind, sampleRateCorr, denseVars, denseHist, gruVars, lastOp>>

DenseNext ==
    \/ \E s \in ArgSeeds : Forward(s)
    \/ \E s \in ArgSeeds : SetWeightsVec(s)
    \/ \E s \in ArgSeeds : SetWeightsPtr(s)
    \/ \E s \in ArgSeeds : SetBias(s)
    \/ DenseReset
    \/ AssignCall
    \/ AssignRecurse

\* ----------------------------------------------------------- GRU: setters
\* setWVals (GRULayer, both overloads, and GRULayerT):
\* wCombinedWeights(k, i) = wVals[i][k] for i < in_size, k < 3*out_size.
GruSetWVals(W, wv) ==
    [k \in GateIdx |-> [i \in 0 .. in_size |-> IF i < in_size THEN wv[i][k] ELSE W[k][i]]]

\* setUVals (GRULayer, both overloads, and GRULayerT):
\* uCombinedWeights(k, i) = uVals[i][k] for i < out_size, k < 3*out_size.
GruSetUVals(U, uv) ==
    [k \in GateIdx |-> [i \in 0 .. out_size |-> IF i < out_size THEN uv[i][k] ELSE U[k][i]]]

\* Column `col` of M set from row r of bVals, for the rows k < rows.
SetBiasColumn(M, col, bvr, rows) ==
    [k \in GateIdx |-> IF k < rows THEN [M[k] EXCEPT ![col] = bvr[k]] ELSE M[k]]

\* GRULayer::setBVals (both overloads): the loop runs over k < out_size * 3.
GRULayerSetBValsRows == 3 * out_size

\* GRULayerT::setBVals: the loop runs over k < out_size.
GRULayerTSetBValsRows == out_size

SetWVals(s) ==
    /\ Idle /\ IsGru
    /\ wCombinedWeights' = GruSetWVals(wCombinedWeights, WVals(s))
    /\ gW' = s /\ lastOp' = "setWVals"
    /\ UNCHANGED <<kind, sampleRateCorr, denseVars, denseHist, uCombinedWeights,
                   gruStream, gruDelay, gU, gB, assignDepth, faulted>>

SetUVals(s) ==
    /\ Idle /\ IsGru
    /\ uCombinedWeights' = GruSetUVals(uCombinedWeights, UVals(s))
    /\ gU' = s /\ lastOp' = "setUVals"
    /\ UNCHANGED <<kind, sampleRateCorr, denseVars, denseHist, wCombinedWeights,
                   gruStream, gruDelay, gW, gB, assignDepth, faulted>>

SetBVals(s) ==
    /\ Idle /\ IsGru
    /\ LET rows == IF kind = "GRULayer" THEN GRULayerSetBValsRows
                   ELSE GRULayerTSetBValsRows
       IN  /\ wCombinedWeights' = SetBiasColumn(wCombinedWeights, in_size, BVals(s)[0], rows)
           /\ uCombinedWeights' = SetBiasColumn(uCombinedWeights, out_size, BVals(s)[1], rows)
    /\ gB' = s /\ lastOp' = "setBVals"
    /\ UNCHANGED <<kind, sampleRateCorr, denseVars, denseHist,
                   gruStream, gruDelay, gW, gU, assignDepth, faulted>>

\* ------------------------------------------------- GRULayerT: reset, prepare
\* GRULayerT::reset, first part: with a sample-rate correction mode, every
\* vector of outs_delayed is set to zero.
ResetDelayed(mode, buf) ==
    IF mode # "None" THEN [j \in 1 .. Len(buf) |-> ZeroOut] ELSE buf

ResetExtendedHt1SetZero(h) == [i \in DOMAIN h |-> 0]

\* GRULayerT::reset leaves extendedHt1 as it is.
ResetExtendedHt1(h) == h

\* GRULayerT::reset, second part: outs = out_type::Zero().
GRUTReset ==
    /\ Idle /\ kind = "GRULayerT"
    /\ outs_delayed' = ResetDelayed(sampleRateCorr, outs_delayed)
    /\ outs' = ZeroOut
    /\ extendedHt1' = ResetExtendedHt1(extendedHt1)
    /\ kernelHist' = <<>> /\ lastOp' = "reset"
    /\ UNCHANGED <<kind, sampleRateCorr, denseVars, denseHist, gruWeights, gruDelay,
                   gruHist, extendedInVec, assignDepth, faulted>>

\* outs_delayed.resize(n, {}): the first n slots kept, new slots zero.
Resize(buf, n) == [j \in 1 .. n |-> IF j <= Len(buf) THEN buf[j] ELSE ZeroOut]

PrepareIntWriteIdxOffByOne(N) == N

\* GRULayerT::prepare(int): delayWriteIdx = delaySamples - 1.
PrepareIntWriteIdx(N) == N - 1

\* GRULayerT::prepare(int), NoInterp: the buffer gets delayWriteIdx + 1
\* slots, then reset().
PrepareInt(N) ==
    /\ Idle /\ kind = "GRULayerT" /\ sampleRateCorr = "NoInterp"
    /\ delayWriteIdx' = PrepareIntWriteIdx(N)
    /\ outs_delayed' = ResetDelayed(sampleRateCorr, Resize(outs_delayed, delayWriteIdx' + 1))
    /\ outs' = ZeroOut
    /\ extendedHt1' = ResetExtendedHt1(extendedHt1)
    /\ prepared' = TRUE /\ delaySamples' = N /\ kernelHist' = <<>>
    /\ lastOp' = "prepare"
    /\ UNCHANGED <<kind, sampleRateCorr, denseVars, denseHist, gruWeights, gruHist,
                   extendedInVec, delayMult, delayPlus1Mult, assignDepth, faulted>>

\* std::floor and std::ceil of n / FracDen, n >= 0.
Floor(n) == n \div FracDen
Ceil(n) == (n + FracDen - 1) \div FracDen

\* GRULayerT::prepare(T): delayWriteIdx = ceil(delaySamples) - ceil(delayOffFactor),
\* with delayOffFactor = delaySamples - floor(delaySamples).  d is the
\* numerator of delaySamples = d / FracDen.
PrepareLinWriteIdx(d) == Ceil(d) - Ceil(d - FracDen * Floor(d))

\* GRULayerT::prepare(T), LinInterp: the two interpolation weights, the
\* write index, delayWriteIdx + 1 slots, then reset().
PrepareLin(d) ==
    /\ Idle /\ kind = "GRULayerT" /\ sampleRateCorr = "LinInterp"
    /\ LET delayOffFactor == d - FracDen * Floor(d)
       IN  /\ delayMult' = FracDen - delayOffFactor
           /\ delayPlus1Mult' = delayOffFactor
    /\ delayWriteIdx' = PrepareLinWriteIdx(d)
    /\ outs_delayed' = ResetDelayed(sampleRateCorr, Resize(outs_delayed, delayWriteIdx' + 1))
    /\ outs' = ZeroOut
    /\ extendedHt1' = ResetExtendedHt1(extendedHt1)
    /\ prepared' = TRUE /\ delaySamples' = d /\ kernelHist' = <<>>
    /\ lastOp' = "prepare"
    /\ UNCHANGED <<kind, sampleRateCorr, denseVars, denseHist, gruWeights, gruHist,
                   extendedInVec, assignDepth, faulted>>

\* ------------------------------------------------------- GRU: one step
\* An extended vector with its first n elements taken from v: the input in
\* front of the constant last element of extendedInVec, the hidden vector
\* in front of the constant last element of extendedHt1.
FormExtended(ext, v, n) == [i \in DOMAIN ext |-> IF i < n THEN v[i] ELSE ext[i]]

\* The delay buffer after the fresh output went into slot delayWriteIdx.
WriteFresh(buf, idx, k) == [buf EXCEPT ![idx + 1] = k]

\* The buffer after its oldest entry (slot 0) was handed out: every entry
\* moves one slot towards 0.
DropOldest(buf) == [j \in 1 .. Len(buf) |-> IF j < Len(buf) THEN buf[j + 1] ELSE buf[j]]

\* Slot i (from 0) of the buffer is inside it.
InBuffer(buf, i) == 0 <= i /\ i < Len(buf)

\* The two slots a fractional-delay step reads.
LinReadSlots(idx) == {idx, idx + 1}

\* delayMult * a + delayPlus1Mult * b, the weights in units of 1/FracDen.
Interpolate(dm, dp, a, b) == [j \in OutIdx |-> (dm * a[j] + dp * b[j]) \div FracDen]

\* What a read of slot i yields: the slot, or anything when i is outside.
ReadSlot(buf, i) == IF InBuffer(buf, i) THEN {buf[i + 1]} ELSE KernelOuts \cup {ZeroOut}

\* forward of GRULayer and GRULayerT.  The input goes into extendedInVec;
\* the cell works on extendedInVec and extendedHt1, the only members that
\* hold the hidden vector from one call to the next, and k is its fresh
\* output h_t.  Without correction k is the output.  With integer delay it
\* goes into the buffer and the oldest entry comes out.  With fractional
\* delay the output interpolates between two slots.  The output is then
\* kept in extendedHt1 as the next step's h_(t-1).
GruForward(s, k) ==
    /\ Idle /\ IsGru
    /\ sampleRateCorr # "None" => prepared
    /\ sampleRateCorr = "NoInterp" => Len(kernelHist) < MaxSteps
    /\ \/ /\ sampleRateCorr = "None"
          /\ outs' = k
          /\ UNCHANGED <<outs_delayed, kernelHist, faulted>>
          /\ extendedInVec' = FormExtended(extendedInVec, XArg(s), in_size)
          /\ extendedHt1' = FormExtended(extendedHt1, outs', out_size)
          /\ lastOp' = "forward"
       \/ /\ sampleRateCorr = "NoInterp" /\ InBuffer(outs_delayed, delayWriteIdx)
          /\ LET buf == WriteFresh(outs_delayed, delayWriteIdx, k)
             IN  outs' = buf[1] /\ outs_delayed' = DropOldest(buf)
          /\ kernelHist' = Append(kernelHist, k)
          /\ extendedInVec' = FormExtended(extendedInVec, XArg(s), in_size)
          /\ extendedHt1' = FormExtended(extendedHt1, outs', out_size)
          /\ lastOp' = "forward"
          /\ UNCHANGED faulted
       \/ /\ sampleRateCorr = "NoInterp" /\ ~InBuffer(outs_delayed, delayWriteIdx)
          /\ faulted' = TRUE
          /\ UNCHANGED <<gruStream, lastOp>>
       \/ /\ sampleRateCorr = "LinInterp" /\ InBuffer(outs_delayed, delayWriteIdx)
          /\ LET buf == WriteFresh(outs_delayed, delayWriteIdx, k)
             IN  /\ \E a \in ReadSlot(buf, delayWriteIdx), b \in ReadSlot(buf, delayWriteIdx + 1) :
                       outs' = Interpolate(delayMult, delayPlus1Mult, a, b)
                 /\ outs_delayed' = DropOldest(buf)
          /\ extendedInVec' = FormExtended(extendedInVec, XArg(s), in_size)
          /\ extendedHt1' = FormExtended(extendedHt1, outs', out_size)
          /\ lastOp' = "forward"
          /\ UNCHANGED <<kernelHist, faulted>>
    /\ UNCHANGED <<kind, sampleRateCorr, denseVars, denseHist, gruWeights, gruDelay,
                   gruHist, assignDepth>>

\* GRULayer::reset: the hidden vector, which this class keeps in
\* extendedHt1 alone, is set to zero.
GRUReset ==
    /\ Idle /\ kind = "GRULayer"
    /\ extendedHt1' = FormExtended(extendedHt1, ZeroOut, out_size)
    /\ lastOp' = "reset"
    /\ UNCHANGED <<kind, sampleRateCorr, denseVars, denseHist, gruWeights, gruDelay,
                   gruHist, extendedInVec, outs, outs_delayed, kernelHist,
                   assignDepth, faulted>>

GruNext ==
    \/ \E s \in ArgSeeds : SetWVals(s)
    \/ \E s \in ArgSeeds : SetUVals(s)
    \/ \E s \in ArgSeeds : SetBVals(s)
    \/ GRUTReset
    \/ GRUReset
    \/ \E N \in 0 .. MaxDelay : PrepareInt(N)
    \/ \E d \in 0 .. (MaxDelay * FracDen) : PrepareLin(d)
    \/ \E s \in ArgSeeds, k \in KernelOuts : GruForward(s, k)

Next == DenseNext \/ GruNext

Spec == Init /\ [][Next]_vars

\* The frame of operator= on top of the stack always gets to run.
FairSpec == Spec /\ WF_vars(AssignRecurse)

\* ================================================================ claims
RECURSIVE DotSum(_, _, _)
DotSum(w, x, k) == IF k >= in_size THEN 0 ELSE w[k] * x[k] + DotSum(w, x, k + 1)

\* bias[j] + sum over i of weight[j][i] * input[i], in T's arithmetic.
Affine(w, b, x) == [j \in OutIdx |-> (b[j] + DotSum(w[j], x, 0)) % TMod]

\* C1: once weights w and bias b were set through setWeights and setBias, a
\* forward call with input x leaves output[j] = b[j] + sum_i w[j][i] * x[i]
\* for every output unit j, in every Dense class.
C1_ForwardIsAffine ==
    (IsDense /\ lastW # 0 /\ lastB # 0 /\ lastIn # 0)
        => outVec = Affine(WArg(lastW), BArg(lastB), XArg(lastIn))

\* What forward puts out, for the input with seed s, on an object that holds
\* the present weights and bias and has never run forward before.
FreshForwardOut(s) ==
    IF kind = "Dense_folded"
    THEN FoldedForward(weights, rowSize, FoldedInVecInit, XArg(s)).out
    ELSE DenseForwardOut(weights, bias, XArg(s))

\* C2: the output of a Dense forward call does not depend on the calls made
\* before it: after any sequence of earlier forward calls it is the output
\* that an object with the same weights and bias and no earlier call gives
\* for the same input (so any two objects with the same parameters agree,
\* whatever their inVec went through).
C2_ForwardHistoryIndependent ==
    (kind \in {"Dense_ranges", "Dense_folded"} /\ lastIn # 0)
        => outVec = FreshForwardOut(lastIn)

\* C2's case: a bias-folded Dense with weights set, whose last forward call
\* followed a call with a different input.
C2_Witness ==
    /\ kind = "Dense_folded" /\ lastW # 0 /\ rowSize[0] = in_size + 1
    /\ lastIn # 0 /\ prevIn # 0 /\ prevIn # lastIn
    /\ inVec # FoldedInVecInit
    /\ outVec # [j \in OutIdx |-> 0]

\* C3: right after setWeights(w) and then setBias(b), getWeight(i, k) is
\* w[i][k] for every i < out_size, k < in_size and getBias(i) is b[i] for
\* every i < out_size.
C3_SettersRoundTrip ==
    (IsDense /\ ~faulted /\ lastW # 0 /\ lastB # 0 /\ lastOp = "setBias")
        => /\ \A i \in OutIdx, k \in InIdx : getWeight(i, k) = WArg(lastW)[i][k]
           /\ \A i \in OutIdx : getBias(i) = BArg(lastB)[i]

\* C4: once setWVals(w), setUVals(u) and setBVals(b) were called on a GRU
\* layer, every row k < 3*out_size has W(k,i) = w[i][k], U(k,i) = u[i][k],
\* W(k,in_size) = b[0][k] and U(k,out_size) = b[1][k].
C4_GruSettersFill ==
    (IsGru /\ gW # 0 /\ gU # 0 /\ gB # 0)
        => \A k \in GateIdx :
            /\ \A i \in InIdx : wCombinedWeights[k][i] = WVals(gW)[i][k]
            /\ \A i \in OutIdx : uCombinedWeights[k][i] = UVals(gU)[i][k]
            /\ wCombinedWeights[k][in_size] = BVals(gB)[0][k]
            /\ uCombinedWeights[k][out_size] = BVals(gB)[1][k]

\* C5: in every reachable state the last element of each extended vector is
\* 1: extendedInVec[in_size] and extendedHt1[out_size] of a GRU layer, and
\* inVec[in_size] of the bias-folded Dense.
C5_ExtendedOnes ==
    /\ IsGru => extendedInVec[in_size] = 1 /\ extendedHt1[out_size] = 1
    /\ kind = "Dense_folded" => inVec[in_size] = 1

\* C5's case: a GRULayerT that was given weights, ran forward steps that
\* filled both extended vectors, and was then reset.
C5_Witness ==
    /\ kind = "GRULayerT" /\ lastOp = "reset" /\ gB # 0
    /\ extendedInVec[0] # 0 /\ extendedHt1[0] # 0

\* C6: right after reset() on a GRULayerT with sample-rate correction, the
\* persisted hidden vector (what the next step takes as h_(t-1), the first
\* out_size elements of extendedHt1), the output vector and every slot of
\* the delay buffer are zero.
C6_ResetZeroes ==
    (kind = "GRULayerT" /\ sampleRateCorr # "None" /\ lastOp = "reset")
        => /\ outs = ZeroOut
           /\ \A i \in OutIdx : extendedHt1[i] = 0
           /\ \A j \in 1 .. Len(outs_delayed) : outs_delayed[j] = ZeroOut

\* Step t (from 0) is the last step taken since prepare or reset.
LastStep == Len(kernelHist) - 1

C8_WeightSettersKeepBias ==
    [][ /\ (lastB # 0 /\ \E s \in ArgSeeds : SetWeightsVec(s) \/ SetWeightsPtr(s))
            => /\ \A i \in OutIdx : getBias(i)' = getBias(i)
               /\ rowSize' = rowSize
        /\ (\E s \in ArgSeeds : SetWVals(s) \/ SetUVals(s))
            => \A k \in GateIdx :
                /\ wCombinedWeights'[k][in_size] = wCombinedWeights[k][in_size]
                /\ uCombinedWeights'[k][out_size] = uCombinedWeights[k][out_size]
      ]_vars

\* C9: after prepare(d) in fractional-delay mode, delayWriteIdx >= 0 and
\* both slots a step reads, delayWriteIdx and delayWriteIdx + 1, are inside
\* the delay buffer.
C9_LinReadsInBuffer ==
    (kind = "GRULayerT" /\ sampleRateCorr = "LinInterp" /\ prepared)
        => /\ delayWriteIdx >= 0
           /\ \A i \in LinReadSlots(delayWriteIdx) : InBuffer(outs_delayed, i)

\* C10: a call to operator=(const Dense&) or operator=(const GRULayer&)
\* eventually returns.
C10_AssignReturns == (assignDepth >= 1) ~> (assignDepth = 0 /\ ~faulted)
====
